---- MODULE Spec2Model ----
(***************************************************************************)
(* Model of src/app.py: a Streamlit page that fetches the captions of a    *)
(* YouTube video, sends them to a generative model and synthesizes a       *)
(* spoken version of the summary.  The script is re-executed top to bottom *)
(* on every widget event; st.session_state and the working directory      *)
(* survive between executions.                                             *)
(***************************************************************************)
EXTENDS Integers, Sequences, FiniteSets, TLC

VARIABLES
    pc,              \* the section of the script the next step executes
    session_state,   \* st.session_state: the twelve keys of lines 24-48
    url_input,       \* the value of the URL text input widget
    audio_file,      \* the file TTS_FILENAME on disk: the text it was synthesized from, or None
    clicked,         \* the button whose click started the current execution, "none" otherwise
    process_ran,     \* whether the last execution ran the body of the process button
    title_obtained,  \* the value yt.title returned to the last run of the process handler, or None
    results_shown,   \* whether the last execution rendered the results section (line 261)
    audio_set,       \* whether tab7 assigned a path to audio_summary_path in the last execution
    audio_played,    \* whether tab7 reached st.audio in the last execution
    fetch,           \* the last call of get_captions_and_title on its own: inputs and result
    gen              \* the last call of gemini_generate on its own: inputs and result

vars == <<pc, session_state, url_input, audio_file, clicked, process_ran,
          title_obtained, results_shown, audio_set, audio_played, fetch, gen>>

\* Python's None; every other value of the model is a string or a boolean.
None == "None"

\* Python truthiness of an Optional[str].
Truthy(v) == v # None /\ v # ""

TTS_FILENAME == "summary_audio.mp3"

-----------------------------------------------------------------------------
(* Bounds *)

MaxSrtLines == 2     \* lines of an SRT document
MaxTracks == 3       \* caption tracks of a video
MaxApiCalls == 3     \* answers the generative API has ready for successive calls
NumTexts == 1        \* distinct texts the generative model can answer with
NumTitles == 1       \* distinct video titles

-----------------------------------------------------------------------------
(* clean_srt *)

IndexLines == {"1"}
TimestampLines == {"00:00:01,000 --> 00:00:04,000"}
\* The lines an SRT document is made of: a cue index, a cue timing, a blank
\* line, a line of text, a line of text in markup, a line of markup only.
SrtLines == IndexLines \cup TimestampLines \cup {"", "hello", "<i>hello</i>", "<br>"}

\* re.sub(r'<.*?>', '', line) on the lines of SrtLines
StripTags(line) ==
    CASE line = "<i>hello</i>" -> "hello"
      [] line = "<br>" -> ""
      [] OTHER -> line

\* What the first three substitutions leave of one line.
CleanLine(line) ==
    IF line \in IndexLines THEN ""
    ELSE IF line \in TimestampLines THEN ""
    ELSE StripTags(line)

RECURSIVE JoinLines(_)
\* '\n'.join(lines)
JoinLines(lines) ==
    IF lines = <<>> THEN ""
    ELSE IF Len(lines) = 1 THEN lines[1]
    ELSE lines[1] \o "\n" \o JoinLines(Tail(lines))

NonBlank(line) == line # ""

\* clean_srt on a document given by its lines: index and timing lines and
\* markup are blanked, runs of blank lines collapse, the ends are stripped.
clean_srt(srt_lines) ==
    JoinLines(SelectSeq([i \in 1..Len(srt_lines) |-> CleanLine(srt_lines[i])], NonBlank))

-----------------------------------------------------------------------------
(* get_captions_and_title *)

LangCodes == {"en", "fr"}
TrackCodes == {"en", "a.en", "fr", "de"}

\* f'a.{lang_code}'
AutoCode(lang_code) == "a." \o lang_code

Titles == {"Title" \o ToString(i) : i \in 1..NumTitles}

\* The exception classes the handlers of lines 144-156 tell apart.
ExcKinds == {"RegexMatchError", "PytubeError", "Exception"}
\* The library calls of the try block, in program order.
LibCalls == <<"YouTube", "title", "captions", "generate_srt_captions">>
\* str(e) of a raised exception
ExcText == "boom"

BoundedSeq(S, n) == UNION {[1..k -> S] : k \in 0..n}

\* yt.captions: the tracks of a video in listing order, keyed by distinct codes.
TrackLists ==
    {t \in BoundedSeq(TrackCodes, MaxTracks) :
        \A i, j \in 1..Len(t) : i # j => t[i] # t[j]}

SrtDocs == BoundedSeq(SrtLines, MaxSrtLines)

\* What YouTube answers for one call of get_captions_and_title: the library
\* call that raises ("none" when none does) and the class raised, the title,
\* the caption tracks and the SRT lines of every track.
VideosOver(track_lists, srt_docs) ==
    {v \in [fail_at : {"none"} \cup {LibCalls[i] : i \in 1..Len(LibCalls)},
            exc : ExcKinds,
            title : Titles,
            tracks : track_lists,
            srt : srt_docs] :
        v.fail_at = "none" => v.exc = "Exception"}

Videos == VideosOver(TrackLists, SrtDocs)

Codes(tracks) == {tracks[i] : i \in 1..Len(tracks)}

\* select_caption with the second strategy tried before the first.
select_caption_auto_first(tracks, lang_code) ==
    IF AutoCode(lang_code) \in Codes(tracks) THEN AutoCode(lang_code)
    ELSE IF lang_code \in Codes(tracks) THEN lang_code
    ELSE IF tracks # <<>> THEN tracks[1] ELSE None

\* Lines 111-123: the code of the track the three strategies settle on,
\* None when none of them yields a track.
select_caption(tracks, lang_code) ==
    LET by_lang == IF lang_code \in Codes(tracks) THEN lang_code ELSE None
        by_auto == IF by_lang = None /\ AutoCode(lang_code) \in Codes(tracks)
                   THEN AutoCode(lang_code) ELSE by_lang
    IN  IF by_auto = None
        THEN (IF tracks # <<>> THEN tracks[1] ELSE None)
        ELSE by_auto

Raises(video, call) == video.fail_at = call

\* handle_exception without the final 'except Exception' clause.
handle_exception_uncaught(exc) ==
    IF exc \in {"RegexMatchError", "PytubeError"}
    THEN [captions |-> None, title |-> "Error", error |-> "Pytube Error",
          raised |-> FALSE, fetched |-> None]
    ELSE [captions |-> None, title |-> None, error |-> None,
          raised |-> TRUE, fetched |-> None]

\* Lines 144-156: the triple an except clause returns.
handle_exception(exc) ==
    LET error_msg ==
            CASE exc = "RegexMatchError" ->
                   "Pytube Regex Error: Could not parse video page."
              [] exc = "PytubeError" ->
                   "Pytube Error: " \o ExcText \o ". The video might be unavailable, age-restricted, or private."
              [] OTHER -> "An unexpected error occurred: " \o ExcText
    IN  [captions |-> None, title |-> "Error", error |-> error_msg,
         raised |-> FALSE, fetched |-> None]

\* get_captions_and_title(video_url, lang_code) against the answers `video`.
\* captions, title, error: the triple returned; raised: an exception left the
\* function; fetched: the code of the track generate_srt_captions ran on.
get_captions_and_title(video, lang_code) ==
    LET caption == select_caption(video.tracks, lang_code)
        srt_captions == JoinLines(video.srt)
    IN  IF \E i \in 1..3 : Raises(video, LibCalls[i])
        THEN handle_exception(video.exc)
        ELSE IF video.tracks = <<>>
        THEN [captions |-> None, title |-> video.title,
              error |-> "No caption tracks found for '" \o video.title \o "'.",
              raised |-> FALSE, fetched |-> None]
        ELSE IF caption = None
        THEN [captions |-> None, title |-> video.title,
              error |-> "Failed to retrieve any captions for '" \o video.title \o "'.",
              raised |-> FALSE, fetched |-> None]
        ELSE IF Raises(video, "generate_srt_captions")
        THEN [handle_exception(video.exc) EXCEPT !.fetched = caption]
        ELSE IF ~Truthy(srt_captions)
        THEN [captions |-> None, title |-> video.title,
              error |-> "Failed to generate SRT content for '" \o caption \o "' captions.",
              raised |-> FALSE, fetched |-> caption]
        ELSE [captions |-> clean_srt(video.srt), title |-> video.title,
              error |-> None, raised |-> FALSE, fetched |-> caption]

\* yt.title as the caller would have seen it: None when the lookup of the
\* video or of its title raised.
TitleSeen(video) ==
    IF Raises(video, "YouTube") \/ Raises(video, "title") THEN None ELSE video.title

-----------------------------------------------------------------------------
(* gemini_generate *)

Texts == {"text" \o ToString(i) : i \in 1..NumTexts}

\* What one call of generate_content does: raise, answer without parts and
\* with a block reason, answer without parts and without one, answer a text.
ApiAnswers == {"exception", "blocked", "empty"} \cup Texts

ErrNotValidated == "Error: API Key not validated or Gemini model not initialized."
ErrBlocked == "Error: Gemini request blocked due to safety settings (SAFETY)."
ErrEmpty == "Error: Gemini returned an empty response."
ErrGenerating == "Error generating content: " \o ExcText

RECURSIVE RetryFrom(_, _)
\* Call generate_content for the n-th time; on an exception try again while
\* answers are left.
RetryFrom(answers, n) ==
    IF answers[n] = "exception" /\ n < Len(answers)
    THEN RetryFrom(answers, n + 1)
    ELSE [result |-> CASE answers[n] = "exception" -> ErrGenerating
                       [] answers[n] = "blocked" -> ErrBlocked
                       [] answers[n] = "empty" -> ErrEmpty
                       [] OTHER -> answers[n],
          calls |-> n]

\* gemini_generate with the call wrapped in a retry loop.
gemini_generate_retry(api_key_validated, gemini_model, answers) ==
    IF ~api_key_validated \/ ~Truthy(gemini_model)
    THEN [result |-> ErrNotValidated, calls |-> 0]
    ELSE RetryFrom(answers, 1)

\* gemini_generate against the answers the API has ready for the first,
\* second, ... call of generate_content.  result: the string returned;
\* calls: how many times generate_content was called.
gemini_generate(api_key_validated, gemini_model, answers) ==
    IF ~api_key_validated \/ ~Truthy(gemini_model)
    THEN [result |-> ErrNotValidated, calls |-> 0]
    ELSE LET response == answers[1]
         IN  [result |-> CASE response = "exception" -> ErrGenerating
                           [] response = "blocked" -> ErrBlocked
                           [] response = "empty" -> ErrEmpty
                           [] OTHER -> response,
              calls |-> 1]

-----------------------------------------------------------------------------
(* text_to_audio *)

\* text_to_audio(text, filename) with session_state.audio_summary_path =
\* audio_summary_path and `file` the content of filename before the call.
\* tts_ok: gTTS and its save succeed.  path, error: the pair returned;
\* file: the content of filename after the call.
text_to_audio(text, audio_summary_path, file, tts_ok) ==
    IF tts_ok
    THEN LET saved == text
             exists == Truthy(audio_summary_path) /\ saved # None
         IN  [path |-> TTS_FILENAME, error |-> None,
              file |-> IF exists THEN None ELSE saved]
    ELSE [path |-> None, error |-> "Failed to generate audio: " \o ExcText,
          file |-> file]

-----------------------------------------------------------------------------
(* The script *)

Urls == {"", "https://youtu.be/a", "https://youtu.be/b"}

ResultKeys == {"caption_text", "video_title", "processing_error", "summary",
               "qa_answer", "flashcards", "quiz", "key_points", "audio_summary_path"}

\* Lines 24-48: the defaults of a new session.
InitialSessionState ==
    [api_key_validated |-> FALSE, gemini_model |-> None, video_url |-> "",
     caption_text |-> None, video_title |-> None, processing_error |-> None,
     summary |-> None, qa_answer |-> None, flashcards |-> None, quiz |-> None,
     key_points |-> None, audio_summary_path |-> None]

\* Lines 56-71: the 'Validate API Key' button.  key: "" when the input is
\* empty, "passes" / "fails" for what the test request does with the key.
validate_api_key(ss, key) ==
    IF key = "" THEN ss
    ELSE IF key = "passes"
    THEN [ss EXCEPT !.gemini_model = "model", !.api_key_validated = TRUE]
    ELSE [ss EXCEPT !.api_key_validated = FALSE, !.gemini_model = None]

\* url_changed that forgets to clear key_points.
url_changed_partial(ss, url) ==
    IF url # ss.video_url
    THEN [ss EXCEPT !.video_url = url,
                    !.caption_text = None, !.video_title = None,
                    !.processing_error = None, !.summary = None,
                    !.qa_answer = None, !.flashcards = None, !.quiz = None,
                    !.audio_summary_path = None]
    ELSE ss

\* Lines 206-217: the URL input differs from the stored URL.
url_changed(ss, url) ==
    IF url # ss.video_url
    THEN [ss EXCEPT !.video_url = url,
                    !.caption_text = None, !.video_title = None,
                    !.processing_error = None, !.summary = None,
                    !.qa_answer = None, !.flashcards = None, !.quiz = None,
                    !.key_points = None, !.audio_summary_path = None]
    ELSE ss

\* Line 221: the 'Process Video Captions' button is created.
process_button_shown(ss) == Truthy(ss.video_url) /\ ss.api_key_validated

\* process_video without the 'elif not captions' branch.
process_video_unchecked(ss, video) ==
    LET reset == [ss EXCEPT !.processing_error = None, !.caption_text = None,
                            !.video_title = None, !.summary = None,
                            !.qa_answer = None, !.flashcards = None,
                            !.quiz = None, !.key_points = None,
                            !.audio_summary_path = None]
        r == get_captions_and_title(video, "en")
    IN  IF Truthy(r.error)
        THEN [reset EXCEPT !.processing_error = r.error, !.caption_text = None,
                           !.video_title = r.title]
        ELSE [reset EXCEPT !.caption_text = r.captions, !.video_title = r.title,
                           !.processing_error = None]

\* Lines 223-251: the body of the 'Process Video Captions' button.
process_video(ss, video) ==
    LET reset == [ss EXCEPT !.processing_error = None, !.caption_text = None,
                            !.video_title = None, !.summary = None,
                            !.qa_answer = None, !.flashcards = None,
                            !.quiz = None, !.key_points = None,
                            !.audio_summary_path = None]
        r == get_captions_and_title(video, "en")
    IN  IF Truthy(r.error)
        THEN [reset EXCEPT !.processing_error = r.error, !.caption_text = None,
                           !.video_title = r.title]
        ELSE IF ~Truthy(r.captions)
        THEN [reset EXCEPT !.processing_error =
                               "No caption text could be retrieved, although no specific error was raised.",
                           !.caption_text = None, !.video_title = r.title]
        ELSE [reset EXCEPT !.caption_text = r.captions, !.video_title = r.title,
                           !.processing_error = None]

\* Line 261: the results section is rendered.
results_displayed(ss) == Truthy(ss.caption_text) /\ ~Truthy(ss.processing_error)

\* Generate(ss, key, answer): the 'if not session_state.<key>: session_state.<key>
\* = gemini_generate(...)' of tabs 1, 3, 4 and 5.
generate_if_missing(ss, key, answer) ==
    IF ~Truthy(ss[key])
    THEN [ss EXCEPT ![key] =
             gemini_generate(ss.api_key_validated, ss.gemini_model, <<answer>>).result]
    ELSE ss

\* Lines 288-296: the 'Get Answer' button of tab 2.
get_answer(ss, qa_clicked, question, answer) ==
    IF qa_clicked /\ Truthy(question)
    THEN [ss EXCEPT !.qa_answer =
             gemini_generate(ss.api_key_validated, ss.gemini_model, <<answer>>).result]
    ELSE ss

\* Lines 338-355: tab 7.  ss, file: the session state and the audio file
\* afterwards; set: audio_summary_path was assigned a path; played: st.audio ran.
audio_overview(ss, file, tts_ok) ==
    LET generate == Truthy(ss.summary) /\ ~Truthy(ss.audio_summary_path)
        tts == text_to_audio(ss.summary, ss.audio_summary_path, file, tts_ok)
        path == IF ~generate THEN ss.audio_summary_path
                ELSE IF file = None
                     THEN (IF Truthy(tts.error) THEN None ELSE tts.path)
                     ELSE TTS_FILENAME
        file2 == IF generate /\ file = None THEN tts.file ELSE file
    IN  [ss |-> [ss EXCEPT !.audio_summary_path = path],
         file |-> file2,
         set |-> generate /\ path # None,
         played |-> Truthy(path) /\ file2 # None]

-----------------------------------------------------------------------------
(* One execution of the script, section by section *)

Buttons == {"none", "validate", "process", "qa"}
KeyOutcomes == {"", "passes", "fails"}
Questions == {"", "why?"}

\* The videos the page is pointed at.
\* without captions or with an English track; whose SRT document is empty,
\* holds a cue index only or holds a line of text.
PageVideos == VideosOver({<<>>, <<"en">>}, {<<>>, <<"1">>, <<"hello">>})

\* What the API answers to the calls the page makes.
PageAnswers == {"exception"} \cup Texts

NoFetch ==
    LET video == [fail_at |-> "none", exc |-> "Exception", title |-> "Title1",
                  tracks |-> <<>>, srt |-> <<>>]
    IN  [called |-> FALSE, video |-> video, lang_code |-> "en",
         result |-> get_captions_and_title(video, "en")]

NoGen ==
    [called |-> FALSE, api_key_validated |-> FALSE, gemini_model |-> None,
     answers |-> <<"empty">>, out |-> gemini_generate(FALSE, None, <<"empty">>)]

\* A new session: the defaults, no audio file, nothing rendered yet.
InitPage ==
    /\ pc = "sidebar"
    /\ session_state = InitialSessionState
    /\ url_input = ""
    /\ audio_file = None
    /\ clicked = "none"
    /\ process_ran = FALSE
    /\ title_obtained = None
    /\ results_shown = FALSE
    /\ audio_set = FALSE
    /\ audio_played = FALSE

Init ==
    /\ InitPage
    /\ fetch = NoFetch
    /\ gen = NoGen

\* A widget event starts an execution: the URL input holds url and button
\* (if any) was clicked.  A button can be clicked only if the previous
\* execution created it.  Lines 52-79 run.
StartRerun(url, button, key) ==
    /\ pc = "sidebar"
    /\ button = "process" => process_button_shown(session_state)
    /\ button = "qa" => results_shown
    /\ url_input' = url
    /\ clicked' = button
    /\ session_state' = IF button = "validate"
                        THEN validate_api_key(session_state, key)
                        ELSE session_state
    /\ pc' = "url"
    /\ UNCHANGED <<audio_file, process_ran, title_obtained, results_shown,
                   audio_set, audio_played, fetch, gen>>

\* The user edits an input or the page is simply re-executed.
InputChanged == \E url \in Urls : StartRerun(url, "none", "")

\* 'Validate API Key' is clicked.
ClickValidate == \E url \in Urls, key \in KeyOutcomes : StartRerun(url, "validate", key)

\* 'Process Video Captions' is clicked.
ClickProcess == \E url \in Urls : StartRerun(url, "process", "")

\* 'Get Answer' is clicked.
ClickGetAnswer == \E url \in Urls : StartRerun(url, "qa", "")

\* Lines 202-217.
UrlSection ==
    /\ pc = "url"
    /\ session_state' = url_changed(session_state, url_input)
    /\ pc' = "process"
    /\ UNCHANGED <<url_input, audio_file, clicked, process_ran, title_obtained,
                   results_shown, audio_set, audio_played, fetch, gen>>

\* The process button exists and its click started this execution.
ProcessHandlerRuns(ss, button) == process_button_shown(ss) /\ button = "process"

\* Lines 221-251 when the button's body runs.
ProcessVideo ==
    /\ pc = "process"
    /\ ProcessHandlerRuns(session_state, clicked)
    /\ \E video \in PageVideos :
          /\ session_state' = process_video(session_state, video)
          /\ title_obtained' = TitleSeen(video)
    /\ process_ran' = TRUE
    /\ pc' = "display"
    /\ UNCHANGED <<url_input, audio_file, clicked, results_shown, audio_set,
                   audio_played, fetch, gen>>

\* Lines 221-256 when it does not.
SkipProcess ==
    /\ pc = "process"
    /\ ~ProcessHandlerRuns(session_state, clicked)
    /\ title_obtained' = None
    /\ process_ran' = FALSE
    /\ pc' = "display"
    /\ UNCHANGED <<session_state, url_input, audio_file, clicked, results_shown,
                   audio_set, audio_played, fetch, gen>>

\* The answers to draw for a call that is made only if `needed`.
AnswersIf(needed) == IF needed THEN PageAnswers ELSE {"exception"}

\* Lines 261-395: the ten tabs.
DisplayResults ==
    /\ pc = "display"
    /\ results_displayed(session_state)
    /\ \E a1 \in AnswersIf(~Truthy(session_state.summary)),
          question \in (IF clicked = "qa" THEN Questions ELSE {""}) :
       \E a2 \in AnswersIf(clicked = "qa" /\ Truthy(question)),
          a3 \in AnswersIf(~Truthy(session_state.flashcards)),
          a4 \in AnswersIf(~Truthy(session_state.quiz)),
          a5 \in AnswersIf(~Truthy(session_state.key_points)) :
          LET s1 == generate_if_missing(session_state, "summary", a1)
              s2 == get_answer(s1, clicked = "qa", question, a2)
              s3 == generate_if_missing(s2, "flashcards", a3)
              s4 == generate_if_missing(s3, "quiz", a4)
              s5 == generate_if_missing(s4, "key_points", a5)
              synthesize == Truthy(s5.summary) /\ ~Truthy(s5.audio_summary_path)
                            /\ audio_file = None
          IN  \E tts_ok \in (IF synthesize THEN BOOLEAN ELSE {TRUE}) :
                 LET tab7 == audio_overview(s5, audio_file, tts_ok)
                 IN  /\ session_state' = tab7.ss
                     /\ audio_file' = tab7.file
                     /\ audio_set' = tab7.set
                     /\ audio_played' = tab7.played
    /\ results_shown' = TRUE
    /\ clicked' = "none"
    /\ pc' = "sidebar"
    /\ UNCHANGED <<url_input, process_ran, title_obtained, fetch, gen>>

\* Lines 397-399: nothing to show, or the processing error.
DisplayNothing ==
    /\ pc = "display"
    /\ ~results_displayed(session_state)
    /\ results_shown' = FALSE
    /\ audio_set' = FALSE
    /\ audio_played' = FALSE
    /\ clicked' = "none"
    /\ pc' = "sidebar"
    /\ UNCHANGED <<session_state, url_input, audio_file, process_ran,
                   title_obtained, fetch, gen>>

Next ==
    \/ InputChanged
    \/ ClickValidate
    \/ ClickProcess
    \/ ClickGetAnswer
    \/ UrlSection
    \/ ProcessVideo
    \/ SkipProcess
    \/ DisplayResults
    \/ DisplayNothing

Spec == Init /\ [][Next]_vars

-----------------------------------------------------------------------------
(* get_captions_and_title and gemini_generate on their own *)

PageVars == <<pc, session_state, url_input, audio_file, clicked, process_ran,
              title_obtained, results_shown, audio_set, audio_played>>

\* A call about to be made: any video, any language code.
InitCaptions ==
    /\ InitPage
    /\ fetch \in {[NoFetch EXCEPT !.video = video, !.lang_code = lang_code] :
                     video \in Videos, lang_code \in LangCodes}
    /\ gen = NoGen

CallGetCaptions ==
    /\ ~fetch.called
    /\ fetch' = [fetch EXCEPT !.called = TRUE,
                              !.result = get_captions_and_title(fetch.video, fetch.lang_code)]
    /\ UNCHANGED <<PageVars, gen>>

NextCaptions == CallGetCaptions

SpecCaptions == InitCaptions /\ [][NextCaptions]_vars

\* The answers the API has ready for the successive calls of one invocation.
AnswerSeqs == [1..MaxApiCalls -> ApiAnswers]

\* A call about to be made: any state of the key and the model, any answers.
InitGemini ==
    /\ InitPage
    /\ fetch = NoFetch
    /\ gen \in {[NoGen EXCEPT !.api_key_validated = validated,
                              !.gemini_model = model, !.answers = answers] :
                   validated \in BOOLEAN, model \in {None, "model"},
                   answers \in AnswerSeqs}

CallGeminiGenerate ==
    /\ ~gen.called
    /\ gen' = [gen EXCEPT !.called = TRUE,
                          !.out = gemini_generate(gen.api_key_validated,
                                                  gen.gemini_model, gen.answers)]
    /\ UNCHANGED <<PageVars, fetch>>

NextGemini == CallGeminiGenerate

SpecGemini == InitGemini /\ [][NextGemini]_vars

-----------------------------------------------------------------------------
(* Caption track selection and error reporting of get_captions_and_title *)

\* The library calls made before a track is selected all succeeded.
ReachedSelection(video) ==
    video.fail_at \in {"none", "generate_srt_captions"} /\ video.tracks # <<>>

\* A library call that is made raises.
LibraryCallFails(video) ==
    \/ video.fail_at \in {"YouTube", "title", "captions"}
    \/ video.fail_at = "generate_srt_captions" /\ video.tracks # <<>>

\* C1: on a video with a non-empty set of caption tracks, the track whose
\* text is fetched is the one keyed L if it exists, otherwise the one keyed
\* 'a.'+L if it exists, otherwise the first track listed.
Thm_C1 ==
    (fetch.called /\ ReachedSelection(fetch.video)) =>
        LET tracks == fetch.video.tracks
            L == fetch.lang_code
        IN  fetch.result.fetched =
                IF L \in Codes(tracks) THEN L
                ELSE IF AutoCode(L) \in Codes(tracks) THEN AutoCode(L)
                ELSE tracks[1]

\* The auto-generated track is fetched although another track is listed
\* first and the track keyed L is missing.
Witness_C1 ==
    /\ fetch.called
    /\ ReachedSelection(fetch.video)
    /\ fetch.lang_code \notin Codes(fetch.video.tracks)
    /\ AutoCode(fetch.lang_code) \in Codes(fetch.video.tracks)
    /\ fetch.video.tracks[1] # AutoCode(fetch.lang_code)
    /\ fetch.result.fetched = AutoCode(fetch.lang_code)

\* C4: get_captions_and_title never lets an exception out; when a library
\* call fails the captions returned are None and the error is a non-empty
\* message; the error is None only if the captions are not None.
Thm_C4 ==
    fetch.called =>
        /\ ~fetch.result.raised
        /\ LibraryCallFails(fetch.video) =>
              fetch.result.captions = None /\ Truthy(fetch.result.error)
        /\ fetch.result.error = None => fetch.result.captions # None

\* SRT generation raises an exception of no pytube class on a selected track.
Witness_C4 ==
    /\ fetch.called
    /\ fetch.video.fail_at = "generate_srt_captions"
    /\ fetch.video.exc = "Exception"
    /\ fetch.video.tracks # <<>>
    /\ fetch.result.captions = None
    /\ Truthy(fetch.result.error)

-----------------------------------------------------------------------------
(* The call of the generative API *)

KeyReady(g) == g.api_key_validated /\ Truthy(g.gemini_model)

\* C2 as stated: a failed call of the model is attempted again, and the
\* error result is returned only after the last attempt failed.
Orig_C2 ==
    (gen.called /\ KeyReady(gen) /\ gen.answers[1] = "exception") =>
        gen.out.calls > 1

\* C2 amended: gemini_generate calls the model at most once; when that call
\* fails the error result is returned at once, without another attempt.
Thm_C2 ==
    gen.called =>
        /\ gen.out.calls <= 1
        /\ (KeyReady(gen) /\ gen.answers[1] = "exception") =>
              gen.out.calls = 1 /\ gen.out.result = ErrGenerating

\* The first call fails, a second one would have succeeded, the error is returned.
Witness_C2 ==
    /\ gen.called
    /\ KeyReady(gen)
    /\ gen.answers[1] = "exception"
    /\ gen.answers[2] \in Texts
    /\ gen.out.result = ErrGenerating

-----------------------------------------------------------------------------
(* The page *)

EndOfRun == pc = "sidebar"

\* C3: whenever the Audio Overview tab sets audio_summary_path and plays the
\* file, the file was synthesized from the summary held in session state.
Claim_C3 ==
    (EndOfRun /\ audio_set /\ audio_played) =>
        audio_file = session_state.summary

CaptionsSet == Truthy(session_state.caption_text)
ErrorSet == session_state.processing_error # None

\* C5: at the end of an execution that ran the process button, exactly one of
\* caption_text (non-empty) and processing_error is set; the two are never
\* set together; the results section is rendered only with captions.
Thm_C5 ==
    /\ (EndOfRun /\ process_ran) => (CaptionsSet <=> ~ErrorSet)
    /\ ~(session_state.caption_text # None /\ ErrorSet)
    /\ (EndOfRun /\ results_shown) => (CaptionsSet /\ ~ErrorSet)

\* Cleaning left nothing of the captions of a processed video.
Witness_C5 ==
    /\ EndOfRun
    /\ process_ran
    /\ session_state.processing_error =
          "No caption text could be retrieved, although no specific error was raised."
    /\ session_state.caption_text = None
    /\ ~results_shown

\* The URL section runs with an input that differs from the stored URL.
UrlChangeStep == pc = "url" /\ url_input # session_state.video_url

\* C6: a changed URL is stored and clears the nine result keys, leaving
\* api_key_validated and gemini_model alone; from then on the results section
\* is rendered only once the process button has stored captions again.
Step_C6 ==
    /\ UrlChangeStep =>
          /\ session_state'.video_url = url_input
          /\ \A k \in ResultKeys : session_state'[k] = None
          /\ session_state'.api_key_validated = session_state.api_key_validated
          /\ session_state'.gemini_model = session_state.gemini_model
    /\ (pc = "display" /\ results_shown') => Truthy(session_state.caption_text)
    /\ (~Truthy(session_state.caption_text) /\ Truthy(session_state'.caption_text)) =>
          (pc = "process" /\ clicked = "process")

Thm_C6 == [][Step_C6]_vars

\* The URL section has just cleared the results the previous execution rendered.
Witness_C6 ==
    /\ pc = "process"
    /\ results_shown
    /\ audio_file # None
    /\ session_state.api_key_validated
    /\ session_state.video_url = url_input
    /\ \A k \in ResultKeys : session_state[k] = None

\* C7: when processing fails after the title was obtained from the video,
\* video_title holds that title at the end of the execution.
Claim_C7 ==
    (EndOfRun /\ process_ran /\ ErrorSet /\ title_obtained # None) =>
        session_state.video_title = title_obtained

====
